---- MODULE Spec2Model ----
(***************************************************************************)
(* A model of package cli (IMQS/cli, cli.go): the command registry, the    *)
(* tokenize / validate / dispatch-or-help sequence of App.Run, and the     *)
(* word wrap of the help renderer.                                         *)
(*                                                                         *)
(* Go strings are TLA+ strings; Go's 0-based half-open slice s[lo:hi] is   *)
(* SubSeq(s, lo+1, hi).  A Go slice of Options is a record [arr, len]: the *)
(* backing array and the length, the capacity being Len(arr).              *)
(***************************************************************************)
EXTENDS Integers, Sequences, FiniteSets, TLC

VARIABLES
    app,        \* the App (registry)
    osArgs,     \* os.Args of the current Run
    pc,         \* position of Run
    iarg,       \* index of the range loop over os.Args (0-based)
    options,    \* Run's local map[string]string
    cmdName,    \* Run's local cmdName
    cmdArgs,    \* Run's local cmdArgs
    cmd,        \* Run's local cmd: index into app.Commands, 0 for nil
    allOptions, \* Run's local allOptions
    stdout,     \* what the current Run has printed
    calls,      \* the ExecFunc invocations of the current Run
    text,       \* argument of formatTextIntoLines
    lines       \* result of formatTextIntoLines

vars == <<app, osArgs, pc, iarg, options, cmdName, cmdArgs, cmd, allOptions,
          stdout, calls, text, lines>>

\* ------------------------------------------------------------------ bounds

\* most tokens after the program name in os.Args
MaxArgs == 3

\* most words in a text given to formatTextIntoLines
MaxWords == 3

\* ------------------------------------------------ Go strings and slices

\* the nil ExecFunc / nil pointer
Nil == "nil"

\* s[lo:hi]
GoSlice(s, lo, hi) == SubSeq(s, lo + 1, hi)

\* strings.Index(s, substr): 0-based index of the first instance, -1 if none
StringsIndex(s, substr) ==
    LET n == Len(substr)
        hits == {i \in 0..(Len(s) - n) : GoSlice(s, i, i + n) = substr}
    IN  IF hits = {} THEN -1
        ELSE CHOOSE i \in hits : \A j \in hits : i <= j

RECURSIVE SplitFrom(_, _, _)
SplitFrom(s, sep, start) ==
    LET rest == GoSlice(s, start, Len(s))
        i == StringsIndex(rest, sep)
    IN  IF i = -1 THEN <<rest>>
        ELSE <<GoSlice(rest, 0, i)>> \o SplitFrom(s, sep, start + i + Len(sep))

\* strings.Split(s, sep), sep not empty
StringsSplit(s, sep) == SplitFrom(s, sep, 0)

RECURSIVE StringsJoin(_, _)
\* strings.Join(elems, sep)
StringsJoin(elems, sep) ==
    IF Len(elems) = 0 THEN ""
    ELSE IF Len(elems) = 1 THEN elems[1]
    ELSE elems[1] \o sep \o StringsJoin(Tail(elems), sep)

\* the zero value of Option
ZeroOption == [Key |-> "", Value |-> "", Description |-> ""]

\* the nil slice
NilSlice == [arr |-> <<>>, len |-> 0]

\* the elements of a slice
Elems(s) == SubSeq(s.arr, 1, s.len)

\* append(s, elems...): the resulting slice and whether it shares s's backing
\* array (it does when the capacity suffices; otherwise the runtime allocates
\* a larger array, of twice the capacity or of the needed length)
GoAppend(s, elems) ==
    LET need == s.len + Len(elems)
        cap == Len(s.arr)
        newcap == IF need > 2 * cap THEN need ELSE 2 * cap
    IN  IF need <= cap
        THEN [arr |-> [i \in 1..cap |->
                          IF i > s.len /\ i <= need THEN elems[i - s.len]
                          ELSE s.arr[i]],
              len |-> need, shared |-> TRUE]
        ELSE [arr |-> [i \in 1..newcap |->
                          IF i <= s.len THEN s.arr[i]
                          ELSE IF i <= need THEN elems[i - s.len]
                          ELSE ZeroOption],
              len |-> need, shared |-> FALSE]

\* ---------------------------------------------------------------- registry

\* findOption returning the last option with that key
findOptionLast(opts, name) ==
    LET hits == {i \in 1..Len(opts) : opts[i].Key = name}
    IN  IF hits = {} THEN 0
        ELSE CHOOSE i \in hits : \A j \in hits : j <= i

\* findOption: index of the first option with that key, 0 for nil
findOption(opts, name) ==
    LET hits == {i \in 1..Len(opts) : opts[i].Key = name}
    IN  IF hits = {} THEN 0
        ELSE CHOOSE i \in hits : \A j \in hits : i <= j

isVarArgs(args) ==
    Len(args) # 0 /\ StringsIndex(args[Len(args)], "...") = 0

ShortDescription(c) == StringsSplit(c.Description, "\n")[1]

ExtraDescription(c) == StringsJoin(Tail(StringsSplit(c.Description, "\n")), "\n")

\* (c *Command) AddBoolOption, on the command at index ci of a.Commands
Command_AddBoolOption(a, ci, name, description) ==
    [a EXCEPT !.Commands[ci].Options =
        Append(@, [Key |-> name, Value |-> "", Description |-> description])]

\* (c *Command) AddValueOption, on the command at index ci of a.Commands
Command_AddValueOption(a, ci, name, value, description) ==
    [a EXCEPT !.Commands[ci].Options =
        Append(@, [Key |-> name, Value |-> value, Description |-> description])]

\* (app *App) AddBoolOption
App_AddBoolOption(a, name, description) ==
    LET r == GoAppend(a.Options,
                      <<[Key |-> name, Value |-> "", Description |-> description]>>)
    IN  [a EXCEPT !.Options = [arr |-> r.arr, len |-> r.len]]

\* (app *App) AddValueOption
App_AddValueOption(a, name, value, description) ==
    LET r == GoAppend(a.Options,
                      <<[Key |-> name, Value |-> value, Description |-> description]>>)
    IN  [a EXCEPT !.Options = [arr |-> r.arr, len |-> r.len]]

\* (app *App) AddCommand
AddCommand(a, name, description, args) ==
    [a EXCEPT !.Commands =
        Append(@, [Name |-> name, Description |-> description, Args |-> args,
                   Options |-> <<>>, Exec |-> Nil])]

\* (app *App) find: index of the first command of that name, 0 for nil
find(a, name) ==
    LET hits == {i \in 1..Len(a.Commands) : a.Commands[i].Name = name}
    IN  IF hits = {} THEN 0
        ELSE CHOOSE i \in hits : \A j \in hits : i <= j

\* cli.App{}
ZeroApp == [Description |-> "", DefaultExec |-> Nil, Commands |-> <<>>,
            Options |-> NilSlice]

\* ----------------------------------------------------------- help renderer

\* const width in formatTextIntoLines
width == 55

RECURSIVE WrapLoopAtWidth(_, _, _, _)
\* the loop flushing a line as soon as it reaches the width
WrapLoopAtWidth(words, i, line, acc) ==
    IF i > Len(words) THEN [line |-> line, lines |-> acc]
    ELSE LET l1 == line \o words[i]
         IN  IF Len(l1) >= width THEN WrapLoopAtWidth(words, i + 1, "", Append(acc, l1))
             ELSE IF i # Len(words) THEN WrapLoopAtWidth(words, i + 1, l1 \o " ", acc)
             ELSE WrapLoopAtWidth(words, i + 1, l1, acc)

RECURSIVE WrapLoop(_, _, _, _)
\* the loop of formatTextIntoLines from word i (1-based) on
WrapLoop(words, i, line, acc) ==
    IF i > Len(words) THEN [line |-> line, lines |-> acc]
    ELSE LET l1 == line \o words[i]
         IN  IF Len(l1) > width THEN WrapLoop(words, i + 1, "", Append(acc, l1))
             ELSE IF i # Len(words) THEN WrapLoop(words, i + 1, l1 \o " ", acc)
             ELSE WrapLoop(words, i + 1, l1, acc)

formatTextIntoLines(t, firstLineIndent, otherLinesIndent) ==
    LET r == WrapLoop(StringsSplit(t, " "), 1, "", <<>>)
    IN  IF Len(r.line) # 0 THEN Append(r.lines, r.line) ELSE r.lines

RECURSIVE StringsRepeat(_, _)
\* strings.Repeat(s, count)
StringsRepeat(s, count) == IF count <= 0 THEN "" ELSE s \o StringsRepeat(s, count - 1)

\* one printed chunk
Printed(kind, t) == [kind |-> kind, text |-> t]

\* writeBody: one Printf per line
writeBody(t, firstLineIndent, otherLinesIndent) ==
    LET ls == formatTextIntoLines(t, firstLineIndent, otherLinesIndent)
    IN  [i \in 1..Len(ls) |->
            Printed("help", StringsRepeat(" ", IF i = 1 THEN firstLineIndent
                                               ELSE otherLinesIndent)
                            \o ls[i] \o "\n")]

formatCmdArgs(args) ==
    IF isVarArgs(args)
    THEN LET last == args[Len(args)]
             varg == GoSlice(last, 3, Len(last))
         IN  StringsJoin(SubSeq(args, 1, Len(args) - 1), " ") \o " " \o varg \o "1 "
             \o varg \o "2 " \o varg \o "3..."
    ELSE StringsJoin(args, " ")

\* the display text of an option: Key, or Key=Value
optionPair(opt) == IF opt.Value # "" THEN opt.Key \o "=" \o opt.Value ELSE opt.Key

Max(S) == IF S = {} THEN 0 ELSE CHOOSE x \in S : \A y \in S : y <= x

\* findLongestOption of ShowHelp
findLongestOption(opts) == Max({Len(optionPair(opts[i])) : i \in 1..Len(opts)})

\* fmt's %-Nv: pad on the right to N characters
PadRight(s, n) == s \o StringsRepeat(" ", n - Len(s))

RECURSIVE Flatten(_)
Flatten(ss) == IF Len(ss) = 0 THEN <<>> ELSE Head(ss) \o Flatten(Tail(ss))

\* showOptions of ShowHelp
showOptions(opts) ==
    LET longest == findLongestOption(opts)
    IN  <<Printed("help", "\n")>> \o
        Flatten([i \in 1..Len(opts) |->
            <<Printed("help", "  -" \o PadRight(optionPair(opts[i]), longest))>>
            \o writeBody(opts[i].Description, 3, 6 + longest)])

\* (app *App) ShowHelp: what it prints
ShowHelp(a, name) ==
    LET ci == find(a, name)
    IN  IF ci # 0
        THEN LET c == a.Commands[ci]
             IN  <<Printed("help", "\n" \o c.Name \o " " \o formatCmdArgs(c.Args) \o "\n\n")>>
                 \o writeBody(ShortDescription(c) \o ".", 2, 2)
                 \o (IF ExtraDescription(c) # "" THEN writeBody(ExtraDescription(c), 2, 2)
                     ELSE <<>>)
                 \o (IF Len(c.Options) # 0 THEN showOptions(c.Options) ELSE <<>>)
        ELSE LET longestCmd == Max({Len(a.Commands[i].Name) : i \in 1..Len(a.Commands)})
             IN  (IF a.Description # ""
                  THEN <<Printed("help", "\n" \o a.Description \o "\n\n")>> ELSE <<>>)
                 \o [i \in 1..Len(a.Commands) |->
                        Printed("help", "  " \o PadRight(a.Commands[i].Name, longestCmd)
                                        \o "  " \o ShortDescription(a.Commands[i]) \o "\n")]
                 \o (IF a.Options.len # 0 THEN showOptions(Elems(a.Options)) ELSE <<>>)

\* ------------------------------------------------------- registries in use

\* the application of cli_test.go and example_test.go
TestApp ==
    LET a0 == [ZeroApp EXCEPT !.Description = "myapp [options] command",
                              !.DefaultExec = "exec"]
        a1 == AddCommand(a0, "start", "Start the application",
                         <<"port", "root-directory">>)
        a2 == AddCommand(a1, "initialize",
                 "Initialize a directory\nThis will setup the necessary structures in 'directory'.",
                 <<"root-directory">>)
        a3 == Command_AddBoolOption(a2, 2, "clean", "Clean all files")
        a4 == Command_AddValueOption(a3, 2, "strength", "howstrong",
                                     "Strong values clean more files")
    IN  AddCommand(a4, "varargs", "Demonstrate variable number of arguments",
                   <<"param1", "...things">>)

\* an application with global options that share keys with command options,
\* a command and an option named help, a command with its own Exec, and no
\* DefaultExec
GlobalApp ==
    LET a0 == [ZeroApp EXCEPT !.Description = "tool -clean=mode command"]
        a1 == App_AddValueOption(a0, "clean", "mode", "How to clean")
        a2 == App_AddBoolOption(a1, "strength", "Use full strength")
        a3 == App_AddBoolOption(a2, "help", "Registered by the caller")
        a4 == AddCommand(a3, "help", "Registered by the caller", <<>>)
        a5 == [a4 EXCEPT !.Commands[1].Exec = "helpExec"]
        a6 == AddCommand(a5, "initialize", "Initialize a directory", <<"root-directory">>)
        a7 == Command_AddBoolOption(a6, 2, "clean", "Clean all files")
        a8 == Command_AddValueOption(a7, 2, "strength", "howstrong",
                                     "Strong values clean more files")
        a9 == [a8 EXCEPT !.Commands[2].Exec = "initExec"]
        a10 == AddCommand(a9, "varargs", "Demonstrate variable number of arguments",
                          <<"param1", "...things">>)
    IN  Command_AddBoolOption(a10, 3, "x", "Extra")

Registries == {TestApp, GlobalApp}

\* the tokens an os.Args is made of
Tokens == {"", "-", "-=v", "help", "-help", "initialize", "varargs",
           "-clean", "-clean=1", "-strength", "-strength=2", "strength=2",
           "-strength=a=b"}

RECURSIVE SeqsUpTo(_, _)
\* the sequences over S of length at most n
SeqsUpTo(S, n) ==
    IF n = 0 THEN {<<>>}
    ELSE LET shorter == SeqsUpTo(S, n - 1)
         IN  shorter \cup {Append(s, x) : s \in shorter, x \in S}

Argvs == {<<"myapp">> \o s : s \in SeqsUpTo(Tokens, MaxArgs)}

\* ------------------------------------------------------------- App.Run

\* a token test that also takes key=value for an option
IsOptionTokenOrAssignment(arg) ==
    GoSlice(arg, 0, 1) = "-" \/ StringsIndex(arg, "=") # -1

\* arg[0:1] == "-", for a token that is not empty
IsOptionToken(arg) == GoSlice(arg, 0, 1) = "-"

\* strings.LastIndex(s, "=")
LastEquals(s) ==
    LET hits == {i \in 0..(Len(s) - 1) : GoSlice(s, i, i + 1) = "="}
    IN  IF hits = {} THEN -1
        ELSE CHOOSE i \in hits : \A j \in hits : j <= i

\* an option token split at its last =
ParseOptionLastEquals(arg) ==
    LET equals == LastEquals(arg)
    IN  IF equals # -1
        THEN [key |-> GoSlice(arg, 1, equals), value |-> GoSlice(arg, equals + 1, Len(arg))]
        ELSE [key |-> GoSlice(arg, 1, Len(arg)), value |-> ""]

\* the key and value an option token sets: options[arg[1:equals]] = arg[equals+1:],
\* or options[arg[1:]] = ""
ParseOption(arg) ==
    LET equals == StringsIndex(arg, "=")
    IN  IF equals # -1
        THEN [key |-> GoSlice(arg, 1, equals), value |-> GoSlice(arg, equals + 1, Len(arg))]
        ELSE [key |-> GoSlice(arg, 1, Len(arg)), value |-> ""]

\* m[k] = v on a Go map
MapPut(m, k, v) == [x \in DOMAIN m \cup {k} |-> IF x = k THEN v ELSE m[x]]

\* cmdName and cmdArgs after a token that is no option
PlaceWord(name, args, arg) ==
    IF name = "" THEN [cmdName |-> arg, cmdArgs |-> args]
    ELSE [cmdName |-> name, cmdArgs |-> Append(args, arg)]

\* the help condition without the reserved command name
IsHelpNoReserved(name, opts) == name = "" \/ "help" \in DOMAIN opts

\* the condition of the help path
IsHelp(name, opts) == name = "" \/ name = "help" \/ "help" \in DOMAIN opts

\* the command ShowHelp is asked about on the help path
HelpTopic(name, args) == IF Len(args) >= 1 THEN args[1] ELSE name

\* the App after app.Options = append(app.Options, cmd.Options...)
AppAfterAppendAssigned(a, c) ==
    LET r == GoAppend(a.Options, c.Options)
    IN  [a EXCEPT !.Options = [arr |-> r.arr, len |-> r.len]]

\* the App after allOptions := append(app.Options, cmd.Options...): the append
\* may write into the spare capacity of app.Options' backing array
AppAfterAppend(a, c) ==
    LET r == GoAppend(a.Options, c.Options)
    IN  IF r.shared THEN [a EXCEPT !.Options.arr = r.arr] ELSE a

\* the arity check with the variadic minimum taken as the declared count
ArityOkNoMinusOne(c, args) ==
    IF isVarArgs(c.Args) THEN ~(Len(args) < Len(c.Args))
    ELSE ~(Len(args) # Len(c.Args))

\* the arity check passes
ArityOk(c, args) ==
    IF isVarArgs(c.Args) THEN ~(Len(args) < Len(c.Args) - 1)
    ELSE ~(Len(args) # Len(c.Args))

\* no diagnostic
None == [kind |-> "none", text |-> ""]

\* the option check without the test for a value given to a boolean option
CheckOptionNoBoolTest(opts, key, value) ==
    LET oi == findOption(opts, key)
        opt == opts[oi]
    IN  IF oi = 0
        THEN [kind |-> "UnrecognizedOption", text |-> "Unrecognized option " \o key \o "\n"]
        ELSE IF opt.Value # "" /\ value = ""
        THEN [kind |-> "OptionRequiresValue", text |-> "Option " \o opt.Key
                     \o " needs a value. Use -" \o opt.Key \o "=" \o opt.Value \o "\n"]
        ELSE None

\* the diagnostic the option check prints for one key and value; None if none

CheckOption(opts, key, value) ==
    LET oi == findOption(opts, key)
        opt == opts[oi]
    IN  IF oi = 0
        THEN Printed("UnrecognizedOption", "Unrecognized option " \o key \o "\n")
        ELSE IF opt.Value = "" /\ value # ""
        THEN Printed("OptionTakesNoValue", "Option " \o opt.Key
                     \o " does not take a value. Simply use -" \o opt.Key \o "\n")
        ELSE IF opt.Value # "" /\ value = ""
        THEN Printed("OptionRequiresValue", "Option " \o opt.Key
                     \o " needs a value. Use -" \o opt.Key \o "=" \o opt.Value \o "\n")
        ELSE None

RECURSIVE RangeOptions(_, _, _, _)
\* for key, value := range options, over the keys in the order the runtime
\* happens to produce: the first diagnostic, None if the loop completes
RangeOptions(opts, m, order, i) ==
    IF i > Len(order) THEN None
    ELSE LET d == CheckOption(opts, order[i], m[order[i]])
         IN  IF d # None THEN d ELSE RangeOptions(opts, m, order, i + 1)

\* the orders in which a range over a map with the key set S can run
Orders(S) == {o \in [1..Cardinality(S) -> S] : \A k \in S : \E i \in DOMAIN o : o[i] = k}

\* the handler resolution that ignores the command's own Exec
ResolveExecDefaultOnly(a, c) == a.DefaultExec

\* exec := cmd.Exec; if exec == nil { exec = app.DefaultExec }
ResolveExec(a, c) == IF c.Exec = Nil THEN a.DefaultExec ELSE c.Exec

ArityMessage(args, name, c) ==
    Printed("ArityMismatch", ToString(Len(args)) \o " arguments given, but " \o name
            \o " needs '" \o formatCmdArgs(c.Args) \o "'\n")

EmptyMap == [x \in {} |-> ""]

Init ==
    /\ app \in Registries
    /\ osArgs = <<>>
    /\ pc = "idle"
    /\ iarg = 0
    /\ options = EmptyMap
    /\ cmdName = ""
    /\ cmdArgs = <<>>
    /\ cmd = 0
    /\ allOptions = <<>>
    /\ stdout = <<>>
    /\ calls = <<>>
    /\ text = ""
    /\ lines = <<>>

\* a call of Run with some os.Args: the locals' initial values
RunBegin ==
    /\ pc = "idle"
    /\ \E argv \in Argvs : osArgs' = argv
    /\ options' = EmptyMap
    /\ cmdName' = ""
    /\ cmdArgs' = <<>>
    /\ iarg' = 0
    /\ cmd' = 0
    /\ allOptions' = <<>>
    /\ stdout' = <<>>
    /\ calls' = <<>>
    /\ pc' = "loop"
    /\ UNCHANGED <<app, text, lines>>

\* iarg == 0: the executable name
LoopProgramName ==
    /\ pc = "loop" /\ iarg < Len(osArgs) /\ iarg = 0
    /\ iarg' = iarg + 1
    /\ UNCHANGED <<app, osArgs, pc, options, cmdName, cmdArgs, cmd, allOptions,
                   stdout, calls, text, lines>>

\* arg[0:1] of an empty token: slice bounds out of range
LoopPanic ==
    /\ pc = "loop" /\ iarg < Len(osArgs) /\ iarg # 0
    /\ Len(osArgs[iarg + 1]) < 1
    /\ pc' = "panic"
    /\ UNCHANGED <<app, osArgs, iarg, options, cmdName, cmdArgs, cmd, allOptions,
                   stdout, calls, text, lines>>

LoopOption ==
    /\ pc = "loop" /\ iarg < Len(osArgs) /\ iarg # 0
    /\ LET arg == osArgs[iarg + 1]
       IN  /\ Len(arg) >= 1
           /\ IsOptionToken(arg)
           /\ options' = MapPut(options, ParseOption(arg).key, ParseOption(arg).value)
    /\ iarg' = iarg + 1
    /\ UNCHANGED <<app, osArgs, pc, cmdName, cmdArgs, cmd, allOptions,
                   stdout, calls, text, lines>>

LoopWord ==
    /\ pc = "loop" /\ iarg < Len(osArgs) /\ iarg # 0
    /\ LET arg == osArgs[iarg + 1]
       IN  /\ Len(arg) >= 1
           /\ ~IsOptionToken(arg)
           /\ cmdName' = PlaceWord(cmdName, cmdArgs, arg).cmdName
           /\ cmdArgs' = PlaceWord(cmdName, cmdArgs, arg).cmdArgs
    /\ iarg' = iarg + 1
    /\ UNCHANGED <<app, osArgs, pc, options, cmd, allOptions,
                   stdout, calls, text, lines>>

LoopEnd ==
    /\ pc = "loop" /\ iarg >= Len(osArgs)
    /\ pc' = "parsed"
    /\ UNCHANGED <<app, osArgs, iarg, options, cmdName, cmdArgs, cmd, allOptions,
                   stdout, calls, text, lines>>

HelpPath ==
    /\ pc = "parsed"
    /\ IsHelp(cmdName, options)
    /\ stdout' = stdout \o ShowHelp(app, HelpTopic(cmdName, cmdArgs))
    /\ pc' = "done"
    /\ UNCHANGED <<app, osArgs, iarg, options, cmdName, cmdArgs, cmd, allOptions,
                   calls, text, lines>>

FindFails ==
    /\ pc = "parsed"
    /\ ~IsHelp(cmdName, options)
    /\ find(app, cmdName) = 0
    /\ stdout' = Append(stdout, Printed("UnrecognizedCommand",
                                        "Unrecognized command '" \o cmdName \o "'\n"))
    /\ pc' = "done"
    /\ UNCHANGED <<app, osArgs, iarg, options, cmdName, cmdArgs, cmd, allOptions,
                   calls, text, lines>>

FindOk ==
    /\ pc = "parsed"
    /\ ~IsHelp(cmdName, options)
    /\ find(app, cmdName) # 0
    /\ cmd' = find(app, cmdName)
    /\ LET c == app.Commands[find(app, cmdName)]
       IN  /\ allOptions' = Elems(GoAppend(app.Options, c.Options))
           /\ app' = AppAfterAppend(app, c)
    /\ pc' = "arity"
    /\ UNCHANGED <<osArgs, iarg, options, cmdName, cmdArgs, stdout, calls, text, lines>>

ArityFail ==
    /\ pc = "arity"
    /\ ~ArityOk(app.Commands[cmd], cmdArgs)
    /\ stdout' = Append(stdout, ArityMessage(cmdArgs, cmdName, app.Commands[cmd]))
    /\ pc' = "done"
    /\ UNCHANGED <<app, osArgs, iarg, options, cmdName, cmdArgs, cmd, allOptions,
                   calls, text, lines>>

ArityPass ==
    /\ pc = "arity"
    /\ ArityOk(app.Commands[cmd], cmdArgs)
    /\ pc' = "options"
    /\ UNCHANGED <<app, osArgs, iarg, options, cmdName, cmdArgs, cmd, allOptions,
                   stdout, calls, text, lines>>

OptionsFail ==
    /\ pc = "options"
    /\ \E order \in Orders(DOMAIN options) :
          /\ RangeOptions(allOptions, options, order, 1) # None
          /\ stdout' = Append(stdout, RangeOptions(allOptions, options, order, 1))
    /\ pc' = "done"
    /\ UNCHANGED <<app, osArgs, iarg, options, cmdName, cmdArgs, cmd, allOptions,
                   calls, text, lines>>

OptionsPass ==
    /\ pc = "options"
    /\ \E order \in Orders(DOMAIN options) :
          RangeOptions(allOptions, options, order, 1) = None
    /\ pc' = "exec"
    /\ UNCHANGED <<app, osArgs, iarg, options, cmdName, cmdArgs, cmd, allOptions,
                   stdout, calls, text, lines>>

NoExec ==
    /\ pc = "exec"
    /\ ResolveExec(app, app.Commands[cmd]) = Nil
    /\ stdout' = Append(stdout, Printed("NoHandler",
                    "No exec function specified for command '" \o cmdName \o "'\n"))
    /\ pc' = "done"
    /\ UNCHANGED <<app, osArgs, iarg, options, cmdName, cmdArgs, cmd, allOptions,
                   calls, text, lines>>

\* exec(cmdName, cmdArgs, options)
Exec ==
    /\ pc = "exec"
    /\ ResolveExec(app, app.Commands[cmd]) # Nil
    /\ calls' = Append(calls, [fn |-> ResolveExec(app, app.Commands[cmd]),
                               cmd |-> cmdName, args |-> cmdArgs, options |-> options])
    /\ pc' = "done"
    /\ UNCHANGED <<app, osArgs, iarg, options, cmdName, cmdArgs, cmd, allOptions,
                   stdout, text, lines>>

\* Run returns: its locals are gone
Return ==
    /\ pc = "done"
    /\ pc' = "idle"
    /\ osArgs' = <<>>
    /\ options' = EmptyMap
    /\ cmdName' = ""
    /\ cmdArgs' = <<>>
    /\ iarg' = 0
    /\ cmd' = 0
    /\ allOptions' = <<>>
    /\ stdout' = <<>>
    /\ calls' = <<>>
    /\ UNCHANGED <<app, text, lines>>

Next ==
    \/ RunBegin
    \/ LoopProgramName
    \/ LoopPanic
    \/ LoopOption
    \/ LoopWord
    \/ LoopEnd
    \/ HelpPath
    \/ FindFails
    \/ FindOk
    \/ ArityFail
    \/ ArityPass
    \/ OptionsFail
    \/ OptionsPass
    \/ NoExec
    \/ Exec
    \/ Return

Spec == Init /\ [][Next]_vars

\* --------------------------------------- formatTextIntoLines on its own

W9 == "bbbbbbbbb"
W25 == "ccccccccccccccccccccccccc"
W45 == "ddddddddddddddddddddddddddddddddddddddddddddd"
W56 == "eeeeeeeeeeeeeeeeeeeeeeeeeeeeeeeeeeeeeeeeeeeeeeeeeeeeeeee"

\* the words a description text is made of
Words == {"", "a", W9, W25, W45, W56}

Texts == {StringsJoin(ws, " ") : ws \in SeqsUpTo(Words, MaxWords)}

WrapInit ==
    /\ app = ZeroApp
    /\ osArgs = <<>>
    /\ pc = "wrap"
    /\ iarg = 0
    /\ options = EmptyMap
    /\ cmdName = ""
    /\ cmdArgs = <<>>
    /\ cmd = 0
    /\ allOptions = <<>>
    /\ stdout = <<>>
    /\ calls = <<>>
    /\ text \in Texts
    /\ lines = <<>>

FormatText ==
    /\ pc = "wrap"
    /\ lines' = formatTextIntoLines(text, 0, 0)
    /\ pc' = "wrapped"
    /\ UNCHANGED <<app, osArgs, iarg, options, cmdName, cmdArgs, cmd, allOptions,
                   stdout, calls, text>>

WrapNext == FormatText

WrapSpec == WrapInit /\ [][WrapNext]_vars

\* ------------------------------------------------ vocabulary of the claims

StartsWith(s, p) == Len(s) >= Len(p) /\ SubSeq(s, 1, Len(p)) = p

NoEquals(s) == \A j \in 1..Len(s) : SubSeq(s, j, j) # "="

\* token t reads -k=v with no = in k, or -k with no = at all and v empty
TokenSets(t, k, v) ==
    /\ StartsWith(t, "-")
    /\ \/ t = "-" \o k \o "=" \o v /\ NoEquals(k)
       \/ t = "-" \o k /\ NoEquals(k) /\ v = ""

Suffixes(t) == {SubSeq(t, i, Len(t)) : i \in 1..(Len(t) + 1)}

TokenHasKey(t, k) == \E v \in Suffixes(t) : TokenSets(t, k, v)

\* the tokens the loop of Run has consumed
Consumed ==
    IF pc \in {"loop", "panic"} THEN SubSeq(osArgs, 2, iarg)
    ELSE IF osArgs = <<>> THEN <<>> ELSE Tail(osArgs)

IsWord(t) == ~StartsWith(t, "-")

\* the tokens consumed that are no option tokens, in argv order
ConsumedWords == SelectSeq(Consumed, IsWord)

\* Run has gone through all of os.Args
Tokenized == pc \in {"parsed", "arity", "options", "exec", "done"}

\* the help condition of the claims
HelpCase == cmdName = "" \/ cmdName = "help" \/ "help" \in DOMAIN options

\* the commands of the parsed name, in registration order
Registered == {i \in 1..Len(app.Commands) : app.Commands[i].Name = cmdName}

\* the command the parsed name resolves to (when Registered is not empty)
Resolved == app.Commands[CHOOSE i \in Registered : \A j \in Registered : i <= j]

\* the arity rule of a command for n positional arguments
ArityRule(c, n) ==
    IF Len(c.Args) > 0 /\ StartsWith(c.Args[Len(c.Args)], "...")
    THEN n >= Len(c.Args) - 1
    ELSE n = Len(c.Args)

\* the effective option set: global options followed by the command's own
Effective(c) == Elems(app.Options) \o c.Options

\* what is wrong with key k as supplied, "" if nothing
OptionFailure(c, k) ==
    LET E == Effective(c)
        M == {i \in 1..Len(E) : E[i].Key = k /\ \A j \in 1..(i - 1) : E[j].Key # k}
    IN  IF M = {} THEN "UnrecognizedOption"
        ELSE LET decl == E[CHOOSE i \in M : TRUE]
             IN  IF decl.Value = "" /\ options[k] # "" THEN "OptionTakesNoValue"
                 ELSE IF decl.Value # "" /\ options[k] = "" THEN "OptionRequiresValue"
                 ELSE ""

OptionFailures(c) == {OptionFailure(c, k) : k \in DOMAIN options} \ {""}

\* the handler of a command: its own Exec if set, otherwise DefaultExec
Handler(c) == IF c.Exec # Nil THEN c.Exec ELSE app.DefaultExec

FailureKinds == {"UnrecognizedCommand", "ArityMismatch", "UnrecognizedOption",
                 "OptionTakesNoValue", "OptionRequiresValue", "NoHandler"}

\* the diagnostics of the current Run
Diagnostics == SelectSeq(stdout, LAMBDA e : e.kind \in FailureKinds)

\* the registry as the program can observe it
Registry(a) == [Description |-> a.Description, DefaultExec |-> a.DefaultExec,
                Commands |-> a.Commands, Options |-> Elems(a.Options)]

\* Run has returned from an invocation that is no help invocation, names a
\* registered command, satisfies its arity rule and supplies only legal options
ValidInvocation ==
    /\ pc = "done"
    /\ ~HelpCase
    /\ Registered # {}
    /\ ArityRule(Resolved, Len(ConsumedWords) - 1)
    /\ OptionFailures(Resolved) = {}

\* the handler was invoked exactly once with the parsed invocation
InvokedOnce ==
    /\ Len(calls) = 1
    /\ calls[1].fn = Handler(Resolved)
    /\ calls[1].cmd = Head(ConsumedWords)
    /\ calls[1].args = Tail(ConsumedWords)
    /\ \A k \in DOMAIN calls[1].options :
          \E i \in 1..Len(Consumed) : TokenHasKey(Consumed[i], k)
    /\ \A i \in 1..Len(Consumed) :
          StartsWith(Consumed[i], "-") =>
              \E k \in DOMAIN calls[1].options : TokenHasKey(Consumed[i], k)
    /\ Diagnostics = <<>>

\* -------------------------------------------------------------------- C1

\* C1 as stated: every valid invocation (no help invocation, registered
\* command, arity rule satisfied, every supplied option legal) invokes the
\* resolved handler exactly once with the parsed name, the positional
\* arguments in argv order and the supplied option keys, without a failure.
C1_AsStated == ValidInvocation => InvokedOnce

\* C1 amended: the same for every valid invocation whose command has an Exec
\* or whose App has a DefaultExec.
C1_ValidInvocationDispatched ==
    (ValidInvocation /\ Handler(Resolved) # Nil) => InvokedOnce

C1_Witness ==
    /\ ValidInvocation
    /\ Len(calls) = 1
    /\ Len(calls[1].args) >= 1
    /\ DOMAIN calls[1].options # {}

\* -------------------------------------------------------------------- C2

\* C2: when no command name is parsed, or it is help, or the option map has
\* the key help, Run renders help, invokes no handler and prints no failure,
\* also when a command or option named help is registered.
C2_HelpNeverDispatches ==
    /\ (Tokenized /\ HelpCase) => calls = <<>>
    /\ (pc = "done" /\ HelpCase) =>
          /\ Len(stdout) > 0
          /\ \A i \in 1..Len(stdout) : stdout[i].kind = "help"

C2_Witness ==
    /\ pc = "done"
    /\ cmdName = "help"
    /\ Registered # {}
    /\ Resolved.Exec # Nil
    /\ ArityRule(Resolved, Len(cmdArgs))
    /\ OptionFailures(Resolved) = {}

\* -------------------------------------------------------------------- C3

\* the kinds of diagnostic the earliest failing check can print, in the order
\* command lookup, arity, option legality, handler presence
EarliestFailure ==
    IF Registered = {} THEN {"UnrecognizedCommand"}
    ELSE IF ~ArityRule(Resolved, Len(cmdArgs)) THEN {"ArityMismatch"}
    ELSE IF OptionFailures(Resolved) # {} THEN OptionFailures(Resolved)
    ELSE IF Handler(Resolved) = Nil THEN {"NoHandler"}
    ELSE {}

C4_ArityCheck ==
    /\ pc \in {"options", "exec"} => ArityRule(app.Commands[cmd], Len(cmdArgs))
    /\ (pc = "done" /\ cmd # 0) =>
          LET rejected == \E i \in 1..Len(stdout) : stdout[i].kind = "ArityMismatch"
          IN  /\ rejected <=> ~ArityRule(app.Commands[cmd], Len(cmdArgs))
              /\ rejected => calls = <<>>

C4_Witness ==
    /\ pc = "done"
    /\ cmd # 0
    /\ app.Commands[cmd].Args = <<"param1", "...things">>
    /\ Len(cmdArgs) = 1
    /\ Len(calls) = 1

\* -------------------------------------------------------------------- C5

\* C5: the option map holds k with value v exactly when the last token
\* supplying k reads -k=v (or -k, with v empty), holds no key that no token
\* supplied, and option tokens are neither the command name nor a positional
\* argument.
C5_Tokenization ==
    (pc \in {"loop", "panic"} \/ Tokenized) =>
        /\ \A k \in DOMAIN options :
              \E i \in 1..Len(Consumed) :
                  /\ TokenSets(Consumed[i], k, options[k])
                  /\ \A j \in (i + 1)..Len(Consumed) : ~TokenHasKey(Consumed[j], k)
        /\ \A i \in 1..Len(Consumed) :
              StartsWith(Consumed[i], "-") =>
                  \E k \in DOMAIN options : TokenHasKey(Consumed[i], k)
        /\ cmdName = (IF ConsumedWords = <<>> THEN "" ELSE Head(ConsumedWords))
        /\ cmdArgs = (IF ConsumedWords = <<>> THEN <<>> ELSE Tail(ConsumedWords))

C5_Witness ==
    /\ Tokenized
    /\ \E i, j \in 1..Len(Consumed) :
          /\ i < j
          /\ TokenSets(Consumed[i], "strength", "2")
          /\ TokenSets(Consumed[j], "strength", "a=b")
    /\ cmdName # ""

\* -------------------------------------------------------------------- C6

OptionKinds == {"UnrecognizedOption", "OptionTakesNoValue", "OptionRequiresValue"}

\* C6: once the arity check has passed, Run checks every supplied key against
\* the global options followed by the command's own, first match by key
\* winning: a violation is the matching option failure with no handler
\* invoked, and with no violation the option check does not fail.
C6_OptionLegality ==
    /\ pc \in {"arity", "options", "exec"} => allOptions = Effective(app.Commands[cmd])
    /\ pc = "exec" => OptionFailures(app.Commands[cmd]) = {}
    /\ (pc = "done" /\ cmd # 0 /\ ArityRule(app.Commands[cmd], Len(cmdArgs))) =>
          LET F == OptionFailures(app.Commands[cmd])
          IN  /\ F # {} => /\ Len(stdout) = 1
                           /\ stdout[1].kind \in F
                           /\ calls = <<>>
              /\ F = {} => \A i \in 1..Len(stdout) : stdout[i].kind \notin OptionKinds

C6_Witness ==
    /\ pc = "done"
    /\ cmd # 0
    /\ "clean" \in DOMAIN options
    /\ options["clean"] = ""
    /\ \E i \in 1..Len(app.Commands[cmd].Options) :
          /\ app.Commands[cmd].Options[i].Key = "clean"
          /\ app.Commands[cmd].Options[i].Value = ""
    /\ Len(stdout) = 1
    /\ stdout[1].kind = "OptionRequiresValue"

\* -------------------------------------------------------------------- C7

\* initialize is declared with args [root-directory], bool option clean and
\* value option strength, there are no global options and a handler is set;
\* Run has returned from the invocation initialize -clean strength=2
ScenarioB ==
    /\ pc = "done"
    /\ osArgs = <<"myapp", "initialize", "-clean", "strength=2">>
    /\ app.Options.len = 0
    /\ cmd # 0
    /\ app.Commands[cmd].Name = "initialize"
    /\ app.Commands[cmd].Args = <<"root-directory">>
    /\ [i \in 1..Len(app.Commands[cmd].Options) |->
           <<app.Commands[cmd].Options[i].Key, app.Commands[cmd].Options[i].Value # "">>]
         = <<(<<"clean", FALSE>>), (<<"strength", TRUE>>)>>
    /\ Handler(app.Commands[cmd]) # Nil

\* C7 as stated: initialize -clean strength=2 fails the arity check and the
\* handler is not invoked.
C7_AsStated ==
    ScenarioB =>
        /\ \E i \in 1..Len(stdout) : stdout[i].kind = "ArityMismatch"
        /\ calls = <<>>

\* C7 amended: initialize -clean strength=2 passes the arity check, the token
\* strength=2 being its one positional argument, and the handler is invoked
\* once with args [strength=2] and options {clean: ""}.
C7_ScenarioBDispatches ==
    ScenarioB =>
        /\ stdout = <<>>
        /\ Len(calls) = 1
        /\ calls[1].cmd = "initialize"
        /\ calls[1].args = <<"strength=2">>
        /\ DOMAIN calls[1].options = {"clean"}
        /\ calls[1].options["clean"] = ""

C7_Witness == ScenarioB /\ Len(calls) = 1

\* -------------------------------------------------------------------- C8

\* C8: no step of Run, on the help path or on a dispatch path, changes the
\* App's description, default handler, command sequence (names, args, option
\* sequences) or global option sequence.
C8_RegistryReadOnly == [][Registry(app)' = Registry(app)]_vars

\* Run has returned after its append wrote into the spare capacity of the
\* global options' backing array
C8_Witness ==
    /\ pc = "done"
    /\ \E i \in (app.Options.len + 1)..Len(app.Options.arr) :
          app.Options.arr[i] # ZeroOption

\* -------------------------------------------------------------------- C9

RECURSIVE FlatWords(_)
\* the words of the lines, read in order
FlatWords(ls) ==
    IF Len(ls) = 0 THEN <<>> ELSE StringsSplit(Head(ls), " ") \o FlatWords(Tail(ls))

HasSpace(s) == \E j \in 1..Len(s) : SubSeq(s, j, j) = " "

\* the line without its last word and the space before it
BeforeLastWord(s) ==
    LET sp == {j \in 1..Len(s) : SubSeq(s, j, j) = " "}
    IN  IF sp = {} THEN "" ELSE SubSeq(s, 1, Max(sp) - 1)

\* C9 as stated: the words of the emitted lines are the words of the text,
\* and every emitted line is at most 55 characters long unless it is one
\* single word longer than 55 characters.
C9_AsStated ==
    pc = "wrapped" =>
        /\ FlatWords(lines) = StringsSplit(text, " ")
        /\ \A i \in 1..Len(lines) :
              Len(lines[i]) <= width \/ ~HasSpace(lines[i])

\* C9 amended: the words of the emitted lines are the words of the text, less
\* a final empty word that would start a line; a line is flushed right after
\* the word that makes it exceed 55 characters is appended, so every emitted
\* line but the last is longer than 55 characters, no emitted line is empty,
\* and every emitted line is at most 55 characters long once its last word
\* and the space before it are removed.
C9_WordWrap ==
    pc = "wrapped" =>
        LET words == StringsSplit(text, " ")
        IN  /\ \/ FlatWords(lines) = words
               \/ /\ words[Len(words)] = ""
                  /\ FlatWords(lines) = SubSeq(words, 1, Len(words) - 1)
            /\ \A i \in 1..Len(lines) :
                  /\ Len(lines[i]) > 0
                  /\ i < Len(lines) => Len(lines[i]) > width
                  /\ Len(BeforeLastWord(lines[i])) <= width

C9_Witness ==
    /\ pc = "wrapped"
    /\ \E i \in 1..Len(lines) : Len(lines[i]) > width /\ HasSpace(lines[i])

\* ------------------------------------------------------------------- C10

\* C10 as stated: Run never aborts with a runtime fault.
C10_RunNeverFaults == pc # "panic"

====
